---- MODULE Spec2Model ----
(***************************************************************************)
(* Climate Data Editor (src/cde.py): one run of editor_page on an uploaded *)
(* table, as a state machine over the phases of the function: schema       *)
(* normalisation, common validation, display of the input table, monthly   *)
(* aggregation, display of the output table, rendering of the R block.     *)
(*                                                                         *)
(* Numbers.  Measurements are integers in tenths of a unit (36.9 mm is     *)
(* 369).  A mean is the exact rational [num, den] = [sum, count]; the      *)
(* rounding of IEEE doubles is not modelled.                               *)
(*                                                                         *)
(* Cells.  A cell of a table is a number, an empty cell (NaN) or a text    *)
(* that is not the spelling of a number.                                   *)
(***************************************************************************)
EXTENDS Integers, Sequences, FiniteSets, TLC

VARIABLES
    uploaded_file,           \* the table read from the upload: [columns, rows]
    pc,                      \* position of the run inside editor_page
    df,                      \* the working DataFrame: [columns, rows]
    required_columns,        \* list of required column labels
    incomplete_years,        \* years listed by the incomplete-year error
    monthly_avg,             \* the summary table: [columns, rows]
    stats,                   \* <<>> or <<[Absolute_Tmin, Absolute_Tmax, average_yearly_rainfall]>>
    code_block,              \* <<>> or <<the four sequences of the R block>>
    emitted,                 \* what the run has shown so far, in order
    session_state,           \* st.session_state: the keys set and their values
    trigger,                 \* the widget whose use started the last script run
    displayed,               \* the page functions the last script run has called
    widgets,                 \* the values of the Editor page's input widgets
    runs                     \* script runs of the session so far

nav_vars == <<session_state, trigger, displayed, widgets, runs>>

vars == <<uploaded_file, pc, df, required_columns, incomplete_years,
          monthly_avg, stats, code_block, emitted, nav_vars>>

-----------------------------------------------------------------------------
(* Bounds of the enumerated uploads and constants of the program.          *)

MaxYears == 2
MaxSpread == 1
MaxRowPick == 1
MaxRuns == 5

MonthsPerYear == 12
FirstYear == 2014

-----------------------------------------------------------------------------
(* Cells and small helpers.                                                 *)

Num(n) == [k |-> "num", v |-> n]
NaN == [k |-> "nan", v |-> 0]
Str == [k |-> "str", v |-> 0]

Range(s) == {s[i] : i \in DOMAIN s}

RECURSIVE SumSeq(_)
SumSeq(s) == IF s = <<>> THEN 0 ELSE Head(s) + SumSeq(Tail(s))

SetMin(S) == CHOOSE x \in S : \A y \in S : x <= y
SetMax(S) == CHOOSE x \in S : \A y \in S : x >= y

RECURSIVE SortedSeq(_)
SortedSeq(S) == IF S = {} THEN <<>> ELSE <<SetMin(S)>> \o SortedSeq(S \ {SetMin(S)})

RECURSIVE Gcd(_, _)
Gcd(a, b) == IF b = 0 THEN a ELSE Gcd(b, a % b)

RECURSIVE LcmOf(_)
LcmOf(S) ==
    IF S = {} THEN 1
    ELSE LET x == CHOOSE y \in S : TRUE
             l == LcmOf(S \ {x})
         IN (x * l) \div Gcd(x, l)

\* pd.to_numeric(..., errors='coerce'): a text that is no number becomes NaN
to_numeric(cell) == IF cell.k = "str" THEN NaN ELSE cell

isnull(cell) == cell.k = "nan"

-----------------------------------------------------------------------------
(* The enumerated uploads.  A logical row is one observation; the table    *)
(* holds it under whichever column labels the upload carries.  The three   *)
(* places a date can come from (Time, YearMonth, Year/Month) hold          *)
(* different years, so the column a convention reads is visible in the     *)
(* derived Year.                                                           *)

ColumnNames == {"Time", "rau", "tn", "tx", "Year", "Month", "YearMonth",
                "Rain", "Tmin", "Tmax"}
AgencyColumns == {"Time", "rau", "tn", "tx"}
MeasureColumns == {"Rain", "Tmin", "Tmax"}

RainTenths(yi, m, s) == 300 + 7 * m + s * yi * (m % 3)
TminTenths(yi, m, s) == 10 * m - 80 + s * yi * ((m % 3) - 1)
TmaxTenths(yi, m, s) == 10 * m + 100 - s * yi * (m % 2)

LogicalRow(yi, m, s) ==
    [y |-> FirstYear + yi, m |-> m, date |-> "num",
     Rain |-> Num(RainTenths(yi, m, s)),
     Tmin |-> Num(TminTenths(yi, m, s)),
     Tmax |-> Num(TmaxTenths(yi, m, s))]

\* the rows of nY complete years, chronological or reversed
BaseRows(nY, order, s) ==
    LET N == MonthsPerYear * nY
        At(k) == LogicalRow((k - 1) \div MonthsPerYear, ((k - 1) % MonthsPerYear) + 1, s)
    IN [k \in 1..N |-> IF order = "asc" THEN At(k) ELSE At(N + 1 - k)]

DateMutations == {"keep", "m0", "m13", "dupe", "nan", "str"}
MeasureMutations == {<<"none", "num">>} \cup (MeasureColumns \X {"nan", "str"})
Structurals == {"none", "drop", "extra"}

MutateDate(r, dm) ==
    CASE dm = "m0" -> [r EXCEPT !.m = 0]
      [] dm = "m13" -> [r EXCEPT !.m = MonthsPerYear + 1]
      [] dm = "dupe" -> [r EXCEPT !.m = (r.m % MonthsPerYear) + 1]
      [] dm = "nan" -> [r EXCEPT !.date = "nan"]
      [] dm = "str" -> [r EXCEPT !.date = "str"]
      [] OTHER -> r

MutateMeasure(r, mm) ==
    LET c == IF mm[2] = "nan" THEN NaN ELSE Str
    IN CASE mm[1] = "Rain" -> [r EXCEPT !.Rain = c]
         [] mm[1] = "Tmin" -> [r EXCEPT !.Tmin = c]
         [] mm[1] = "Tmax" -> [r EXCEPT !.Tmax = c]
         [] OTHER -> r

\* one row mutated, and then the last row dropped or repeated
LogicalRows(nY, order, s, i, dm, mm, st) ==
    LET base == BaseRows(nY, order, s)
        one == [base EXCEPT ![i] = MutateMeasure(MutateDate(base[i], dm), mm)]
    IN CASE st = "drop" -> SubSeq(one, 1, Len(one) - 1)
         [] st = "extra" -> Append(one, one[Len(one)])
         [] OTHER -> one

DateCell(kind, n) == IF kind = "num" THEN Num(n) ELSE IF kind = "nan" THEN NaN ELSE Str

CellFor(c, r) ==
    CASE c = "Time" -> DateCell(r.date, r.y * 100 + r.m)
      [] c = "YearMonth" -> DateCell(r.date, (r.y + 1) * 100 + r.m)
      [] c = "Year" -> Num(r.y + 2)
      [] c = "Month" -> DateCell(r.date, r.m)
      [] c \in {"rau", "Rain"} -> r.Rain
      [] c \in {"tn", "Tmin"} -> r.Tmin
      [] OTHER -> r.Tmax

\* pd.read_excel: the table with a default index 0, 1, 2, ...
read_excel(cols, lrows) ==
    [columns |-> cols,
     rows |-> [k \in 1..Len(lrows) |->
                 [index |-> k - 1, cell |-> [c \in cols |-> CellFor(c, lrows[k])]]]]

\* The schemas every data set is tried under.
DataSchemas ==
    { {"Time", "rau", "tn", "tx"},
      {"Year", "Month", "Rain", "Tmin", "Tmax"},
      {"YearMonth", "Rain", "Tmin", "Tmax"},
      {"Year", "Month", "Tmin", "Tmax"},
      {"Time", "Rain", "Tmin"} }

\* Every set of column labels, except the ones where the agency rename
\* would leave two columns under one measurement label (what pandas and
\* streamlit do with those differs between their versions).
ColumnSets ==
    {c \in SUBSET ColumnNames :
        ~(AgencyColumns \subseteq c /\ c \cap MeasureColumns # {})}

DataUploads ==
    {read_excel(cols, LogicalRows(p[1], p[2], p[3], p[4], p[5], p[6], p[7])) :
        cols \in DataSchemas,
        p \in (1..MaxYears) \X {"asc", "desc"} \X (0..MaxSpread) \X (1..MaxRowPick)
              \X DateMutations \X MeasureMutations \X Structurals}

SchemaUploads ==
    {read_excel(cols, LogicalRows(1, "asc", 0, 1, dm, <<"none", "num">>, "none")) :
        cols \in ColumnSets, dm \in {"keep", "m13"}}

Uploads == DataUploads \cup SchemaUploads

-----------------------------------------------------------------------------
(* What a run shows: each call of st.write, st.error, st.header,           *)
(* st.dataframe and st.code is one item, in the order of the calls.        *)

Item(st, arg) == [st |-> st, arg |-> arg, val |-> 0]
Written(arg, val) == [st |-> "write", arg |-> arg, val |-> val]

MsgAgency == Item("write", "Detected Hungarian Meteorological Service data format.")
MsgSeparate == Item("write", "Detected separate Year and Month columns.")
MsgCombined == Item("write", "Detected combined YearMonth or Time column.")
ErrMonthSeparate == Item("error", "Error: 'Month' values must be between 1 and 12.")
ErrMonthCombined == Item("error", "Error: Extracted 'Month' values must be between 1 and 12.")
ErrSchema == Item("error", "Error: The Excel file must contain either separate 'Year' and 'Month' columns, a combined 'YearMonth' or 'Time' column.")
ErrColumns == Item("error", "Error: The Excel file must contain the following columns")
ErrValues == Item("error", "Error: Missing values found in the required columns.")
ErrYears == Item("error", "Error: Incomplete data for year(s)")
ErrException == Item("error", "An error occurred")
HeaderInput == Item("header", "Input Data")
TableInput == Item("dataframe", "df")
HeaderOutput == Item("header", "Output Data")
TableOutput == Item("dataframe", "monthly_avg")
HeaderCode == Item("header", "Output text for climatol/diagwl")
CodeBlock == Item("code", "r")

-----------------------------------------------------------------------------
(* Schema normalisation, lines 40-100.                                      *)

IsAgency(cols) == AgencyColumns \subseteq cols
IsSeparate(cols) == "Year" \in cols /\ "Month" \in cols
IsCombined(cols) == "YearMonth" \in cols \/ "Time" \in cols

\* mutant of Convention: the Year and Month columns tried before the agency columns
Convention_SeparateFirst(cols) ==
    IF IsSeparate(cols) THEN "separate"
    ELSE IF IsAgency(cols) THEN "agency"
    ELSE IF IsCombined(cols) THEN "combined"
    ELSE "none"

\* the if / else / if / elif / else of lines 40, 67, 79, 94
Convention(cols) ==
    IF IsAgency(cols) THEN "agency"
    ELSE IF IsSeparate(cols) THEN "separate"
    ELSE IF IsCombined(cols) THEN "combined"
    ELSE "none"

year_month_col(cols) == IF "YearMonth" \in cols THEN "YearMonth" ELSE "Time"

\* df.rename(columns={...}) of the agency branch
RenamedLabel(c) ==
    CASE c = "Time" -> "YearMonth"
      [] c = "rau" -> "Rain"
      [] c = "tn" -> "Tmin"
      [] c = "tx" -> "Tmax"
      [] OTHER -> c

rename(frame) ==
    LET newcols == {RenamedLabel(c) : c \in frame.columns}
        From(l) == IF \E c \in AgencyColumns : RenamedLabel(c) = l
                   THEN CHOOSE c \in AgencyColumns : RenamedLabel(c) = l
                   ELSE l
    IN [columns |-> newcols,
        rows |-> [k \in 1..Len(frame.rows) |->
                    [index |-> frame.rows[k].index,
                     cell |-> [l \in newcols |-> frame.rows[k].cell[From(l)]]]]]

\* two columns of the frame would carry the label l after the rename
DuplicateLabel(cols, l) == Cardinality({c \in cols : RenamedLabel(c) = l}) > 1

\* to_numeric, dropna, astype(int), // 100, % 100 and drop of the coded column
SplitYearMonth(frame, col) ==
    LET kept == SelectSeq(frame.rows, LAMBDA r : ~isnull(to_numeric(r.cell[col])))
        newcols == (frame.columns \ {col}) \cup {"Year", "Month"}
    IN [columns |-> newcols,
        rows |-> [k \in 1..Len(kept) |->
                    [index |-> kept[k].index,
                     cell |-> [c \in newcols |->
                                 IF c = "Year" THEN Num(kept[k].cell[col].v \div 100)
                                 ELSE IF c = "Month" THEN Num(kept[k].cell[col].v % 100)
                                 ELSE kept[k].cell[c]]]]]

\* to_numeric, dropna and astype(int) of the Year and Month columns
CoerceYearMonth(frame) ==
    LET kept == SelectSeq(frame.rows,
                    LAMBDA r : ~isnull(to_numeric(r.cell["Year"]))
                               /\ ~isnull(to_numeric(r.cell["Month"])))
    IN [columns |-> frame.columns, rows |-> kept]

\* df['Month'].between(1, 12).all()
MonthsInRange(frame) ==
    \A k \in 1..Len(frame.rows) :
        /\ frame.rows[k].cell["Month"].v >= 1
        /\ frame.rows[k].cell["Month"].v <= MonthsPerYear

MeasureList == <<"Rain", "Tmin", "Tmax">>
DateList == <<"Year", "Month">>

EmptyFrame == [columns |-> {}, rows |-> <<>>]

\* The outcome of lines 40-100 on the uploaded table: the frame, the required
\* columns, the items shown, and how the block ended ("ok": falls through to
\* the common validation, "return": st.error and return, "raise": exception).
NormalizeTable(up) ==
    LET conv == Convention(up.columns) IN
    CASE conv = "agency" ->
            IF DuplicateLabel(up.columns, "YearMonth")
            THEN [end |-> "raise", df |-> EmptyFrame, required |-> <<>>,
                  out |-> <<MsgAgency>>]
            ELSE [end |-> "ok", df |-> SplitYearMonth(rename(up), "YearMonth"),
                  required |-> <<"Year", "Month", "Rain", "Tmin", "Tmax">>,
                  out |-> <<MsgAgency>>]
      [] conv = "separate" ->
            LET f == CoerceYearMonth(up) IN
            IF MonthsInRange(f)
            THEN [end |-> "ok", df |-> f, required |-> MeasureList \o DateList,
                  out |-> <<MsgSeparate>>]
            ELSE [end |-> "return", df |-> f, required |-> MeasureList,
                  out |-> <<MsgSeparate, ErrMonthSeparate>>]
      [] conv = "combined" ->
            LET f == SplitYearMonth(up, year_month_col(up.columns)) IN
            IF MonthsInRange(f)
            THEN [end |-> "ok", df |-> f, required |-> MeasureList \o DateList,
                  out |-> <<MsgCombined>>]
            ELSE [end |-> "return", df |-> f, required |-> MeasureList,
                  out |-> <<MsgCombined, ErrMonthCombined>>]
      [] OTHER ->
            [end |-> "return", df |-> up, required |-> MeasureList,
             out |-> <<ErrSchema>>]

-----------------------------------------------------------------------------
(* Common validation, lines 105-117.                                        *)

\* not all(col in df.columns for col in required_columns)
ColumnsMissing(frame, required) ==
    \E i \in 1..Len(required) : required[i] \notin frame.columns

\* df[required_columns].isnull().any().any()
ValuesMissing(frame, required) ==
    \E k \in 1..Len(frame.rows), i \in 1..Len(required) :
        isnull(frame.rows[k].cell[required[i]])

YearsOf(frame) == {frame.rows[k].cell["Year"].v : k \in 1..Len(frame.rows)}

\* df.groupby('Year')['Month'].count(): the rows of each year
year_counts(frame) ==
    [y \in YearsOf(frame) |->
        Cardinality({k \in 1..Len(frame.rows) : frame.rows[k].cell["Year"].v = y})]

\* year_counts[year_counts != 12].index.tolist(), in the order of the group keys
IncompleteYears(frame) ==
    SortedSeq({y \in YearsOf(frame) : year_counts(frame)[y] # MonthsPerYear})

\* mutant of ValidateTable: the years counted before the values are checked
ValidateTable_YearsFirst(frame, required) ==
    IF ColumnsMissing(frame, required) THEN ErrColumns
    ELSE IF IncompleteYears(frame) # <<>> THEN ErrYears
    ELSE IF ValuesMissing(frame, required) THEN ErrValues
    ELSE Item("ok", "")

\* The first failing check of lines 105-117, or "ok".
ValidateTable(frame, required) ==
    IF ColumnsMissing(frame, required) THEN ErrColumns
    ELSE IF ValuesMissing(frame, required) THEN ErrValues
    ELSE IF IncompleteYears(frame) # <<>> THEN ErrYears
    ELSE Item("ok", "")

-----------------------------------------------------------------------------
(* Monthly aggregation, lines 123-136.                                      *)

\* the values of column col in the rows whose key column holds keyval
GroupValues(frame, key, keyval, col) ==
    LET rs == SelectSeq(frame.rows, LAMBDA r : r.cell[key].v = keyval)
    IN [k \in 1..Len(rs) |-> rs[k].cell[col].v]

GroupMean(vals) == [num |-> SumSeq(vals), den |-> Len(vals)]
GroupMax(vals) == [num |-> SetMax(Range(vals)), den |-> 1]
\* mutant of GroupMin: 'max' written for 'min'
GroupMin_AsMax(vals) == [num |-> SetMax(Range(vals)), den |-> 1]
GroupMin(vals) == [num |-> SetMin(Range(vals)), den |-> 1]

ApplyAgg(fn, vals) ==
    CASE fn = "mean" -> GroupMean(vals)
      [] fn = "max" -> GroupMax(vals)
      [] OTHER -> GroupMin(vals)

\* the dict given to agg, one pair per resulting column, in its order
AggPairs == << <<"Rain", "mean">>, <<"Tmax", "max">>,
               <<"Tmin", "mean">>, <<"Tmin", "min">> >>

\* f'{col[0]}_{col[1]}' if col[1] else col[0]
FlatLabel(p) == IF p[2] # "" THEN p[1] \o "_" \o p[2] ELSE p[1]

MonthsOf(frame) == {frame.rows[k].cell["Month"].v : k \in 1..Len(frame.rows)}

\* df.groupby('Month').agg({...}), the flattening of the labels and
\* reset_index: one row per month present, by ascending month
groupby_agg(frame) ==
    LET months == SortedSeq(MonthsOf(frame))
        labels == [i \in 1..Len(AggPairs) |-> FlatLabel(AggPairs[i])]
        Pair(l) == AggPairs[CHOOSE i \in 1..Len(AggPairs) : labels[i] = l]
    IN [columns |-> <<"Month">> \o labels,
        rows |-> [j \in 1..Len(months) |->
                    [l \in {"Month"} \cup Range(labels) |->
                        IF l = "Month" THEN [num |-> months[j], den |-> 1]
                        ELSE ApplyAgg(Pair(l)[2],
                                      GroupValues(frame, "Month", months[j], Pair(l)[1]))]]]

AllValues(frame, col) == {frame.rows[k].cell[col].v : k \in 1..Len(frame.rows)}

\* df.groupby('Year')['Rain'].sum()
yearly_rainfall(frame) ==
    [y \in YearsOf(frame) |-> SumSeq(GroupValues(frame, "Year", y, "Rain"))]

\* yearly_rainfall.mean()
average_yearly_rainfall(frame) ==
    LET ys == SortedSeq(YearsOf(frame))
    IN [num |-> SumSeq([i \in 1..Len(ys) |-> yearly_rainfall(frame)[ys[i]]]),
        den |-> Len(ys)]

\* a text among the measurements: mean, min and max of such a column raise
TextMeasure(frame) ==
    \E k \in 1..Len(frame.rows), c \in MeasureColumns : frame.rows[k].cell[c].k = "str"

-----------------------------------------------------------------------------
(* Formatting, lines 141-152.  f"{x:.1f}" of a value in tenths is the      *)
(* nearest whole number of tenths, f"{x:.2f}" the nearest number of        *)
(* hundredths, ties to even.                                               *)

RoundHalfEven(num, den) ==
    LET q == num \div den
        r == num - q * den
    IN IF 2 * r < den THEN q
       ELSE IF 2 * r > den THEN q + 1
       ELSE IF q % 2 = 0 THEN q ELSE q + 1

Format1(x) == RoundHalfEven(x.num, x.den)
Format2(x) == RoundHalfEven(x.num * 10, x.den)

\* the columns the four strings of lines 149-152 are read from
RenderColumns == <<"Rain", "Tmax", "Tmin", "Tmin_abs">>

ColumnStr(table, label) ==
    [j \in 1..Len(table.rows) |-> Format1(table.rows[j][label])]

-----------------------------------------------------------------------------
(* The run.                                                                 *)

NoTable == [columns |-> <<>>, rows |-> <<>>]

Init ==
    /\ uploaded_file \in Uploads
    /\ pc = "normalize"
    /\ df = EmptyFrame
    /\ required_columns = <<>>
    /\ incomplete_years = <<>>
    /\ monthly_avg = NoTable
    /\ stats = <<>>
    /\ code_block = <<>>
    /\ emitted = <<>>
    /\ session_state = [current_page |-> "Editor"]
    /\ trigger = "file_uploader"
    /\ displayed = <<"editor_page">>
    /\ widgets = [uploaded |-> TRUE, station_name_input |-> "StationName",
                  elevation_input |-> "Altitude"]
    /\ runs = 1

\* lines 35-100
Normalize ==
    /\ pc = "normalize"
    /\ LET n == NormalizeTable(uploaded_file) IN
        /\ df' = n.df
        /\ required_columns' = n.required
        /\ emitted' = IF n.end = "raise" THEN emitted \o n.out \o <<ErrException>>
                      ELSE emitted \o n.out
        /\ pc' = IF n.end = "ok" THEN "validate" ELSE "done"
    /\ UNCHANGED <<uploaded_file, incomplete_years, monthly_avg, stats, code_block>>
    /\ UNCHANGED nav_vars

\* lines 105-117
Validate ==
    /\ pc = "validate"
    /\ LET v == ValidateTable(df, required_columns) IN
        /\ incomplete_years' = IF v = ErrYears THEN IncompleteYears(df) ELSE <<>>
        /\ emitted' = IF v.st = "error" THEN Append(emitted, v) ELSE emitted
        /\ pc' = IF v.st = "error" THEN "done" ELSE "show_input"
    /\ UNCHANGED <<uploaded_file, df, required_columns, monthly_avg, stats, code_block>>
    /\ UNCHANGED nav_vars

\* lines 119-120
ShowInput ==
    /\ pc = "show_input"
    /\ emitted' = emitted \o <<HeaderInput, TableInput>>
    /\ pc' = "aggregate"
    /\ UNCHANGED <<uploaded_file, df, required_columns, incomplete_years,
                   monthly_avg, stats, code_block>>
    /\ UNCHANGED nav_vars

\* lines 123-136, and the except clause of lines 174-175
Aggregate ==
    /\ pc = "aggregate"
    /\ IF TextMeasure(df)
       THEN /\ emitted' = Append(emitted, ErrException)
            /\ pc' = "done"
            /\ UNCHANGED <<monthly_avg, stats>>
       ELSE /\ monthly_avg' = groupby_agg(df)
            /\ stats' = <<[Absolute_Tmin |-> SetMin(AllValues(df, "Tmin")),
                           Absolute_Tmax |-> SetMax(AllValues(df, "Tmax")),
                           average_yearly_rainfall |-> average_yearly_rainfall(df)]>>
            /\ pc' = "show_output"
            /\ UNCHANGED emitted
    /\ UNCHANGED <<uploaded_file, df, required_columns, incomplete_years, code_block>>
    /\ UNCHANGED nav_vars

\* lines 139-143
ShowOutput ==
    /\ pc = "show_output"
    /\ emitted' = emitted \o
          <<HeaderOutput, TableOutput,
            Written("Absolute minimum temperature",
                    Format1([num |-> stats[1].Absolute_Tmin, den |-> 1])),
            Written("Absolute maximum temperature",
                    Format1([num |-> stats[1].Absolute_Tmax, den |-> 1])),
            Written("Average rainfall in a year", Format2(stats[1].average_yearly_rainfall))>>
    /\ pc' = "render"
    /\ UNCHANGED <<uploaded_file, df, required_columns, incomplete_years,
                   monthly_avg, stats, code_block>>
    /\ UNCHANGED nav_vars

\* lines 147-172, and the except clause of lines 174-175
Render ==
    /\ pc = "render"
    /\ IF \E i \in 1..Len(RenderColumns) : RenderColumns[i] \notin Range(monthly_avg.columns)
       THEN /\ emitted' = emitted \o <<HeaderCode, ErrException>>
            /\ UNCHANGED code_block
       ELSE /\ code_block' = <<[rain |-> ColumnStr(monthly_avg, "Rain"),
                                tmax |-> ColumnStr(monthly_avg, "Tmax"),
                                tmin |-> ColumnStr(monthly_avg, "Tmin"),
                                tmin_abs |-> ColumnStr(monthly_avg, "Tmin_abs")]>>
            /\ emitted' = emitted \o <<HeaderCode, CodeBlock>>
    /\ pc' = "done"
    /\ UNCHANGED <<uploaded_file, df, required_columns, incomplete_years,
                   monthly_avg, stats>>
    /\ UNCHANGED nav_vars

Next ==
    \/ Normalize
    \/ Validate
    \/ ShowInput
    \/ Aggregate
    \/ ShowOutput
    \/ Render

Spec == Init /\ [][Next]_vars

-----------------------------------------------------------------------------
(* Vocabulary of the properties.                                            *)

Shown(item) == item \in Range(emitted)
ErrorsShown == {emitted[i] : i \in {j \in DOMAIN emitted : emitted[j].st = "error"}}
MonthErrors == {ErrMonthSeparate, ErrMonthCombined}

\* lines 40-100 produced the canonical Year and Month columns
Normalized == pc # "normalize" /\ {"Year", "Month"} \subseteq df.columns

\* the run went past the validation and into the display and aggregation
ReachedAggregator == Shown(TableInput)

\* the months recorded for year y, one entry per record
MonthsOfYear(frame, y) == GroupValues(frame, "Year", y, "Month")

\* year y has each of the months 1..12 exactly once
CompleteYear(frame, y) ==
    /\ Len(MonthsOfYear(frame, y)) = MonthsPerYear
    /\ Range(MonthsOfYear(frame, y)) = 1..MonthsPerYear

ViolatingYears(frame) == {y \in YearsOf(frame) : ~CompleteYear(frame, y)}

SummaryMonths == [j \in 1..Len(monthly_avg.rows) |-> monthly_avg.rows[j]["Month"].num]

\* a = b and a <= b for the rationals [num, den], den > 0
RatEq(a, b) == a.num * b.den = b.num * a.den
RatLeq(a, b) == a.num * b.den <= b.num * a.den

\* the normalisation fell through to the common validation
PassedNormalization == Normalized /\ ErrorsShown \cap (MonthErrors \cup {ErrSchema}) = {}

\* the first error shown by the run, or the item "ok"
FirstError ==
    IF ErrorsShown = {} THEN Item("ok", "")
    ELSE emitted[SetMin({j \in DOMAIN emitted : emitted[j].st = "error"})]

CanonicalColumns == {"Year", "Month", "Rain", "Tmin", "Tmax"}
Twelve == [m \in 1..MonthsPerYear |-> m]

-----------------------------------------------------------------------------
(* C1: a run on a table that passes normalisation and every validation     *)
(* check (all cells numeric, every year with the months 1..12 once each)   *)
(* ends with the R block emitted, its four sequences holding 12 values     *)
(* each, the m-th being the statistic of month m, and with no error shown. *)
C1_RunEmitsRBlock ==
    (pc = "done" /\ ReachedAggregator /\ ~TextMeasure(df) /\ ViolatingYears(df) = {}) =>
        /\ ErrorsShown = {}
        /\ Shown(CodeBlock)
        /\ code_block # <<>>
        /\ SummaryMonths = Twelve
        /\ \A m \in 1..MonthsPerYear :
             /\ code_block[1].rain[m] = Format1(monthly_avg.rows[m]["Rain_mean"])
             /\ code_block[1].tmax[m] = Format1(monthly_avg.rows[m]["Tmax_max"])
             /\ code_block[1].tmin[m] = Format1(monthly_avg.rows[m]["Tmin_mean"])
             /\ code_block[1].tmin_abs[m] = Format1(monthly_avg.rows[m]["Tmin_min"])
        /\ \A f \in {"rain", "tmax", "tmin", "tmin_abs"} :
             Len(code_block[1][f]) = MonthsPerYear

(* C2: a data set reaches the aggregation only if every year present has   *)
(* the months 1..12 once each; a data set that gets to the year check with *)
(* a year that has not is rejected with the incomplete-year error, and the *)
(* error lists exactly the years that have not.                            *)
C2_OnlyCompleteYearsAggregated ==
    /\ ReachedAggregator => ViolatingYears(df) = {}
    /\ ( /\ pc = "done"
         /\ PassedNormalization
         /\ CanonicalColumns \subseteq df.columns
         /\ ~ValuesMissing(df, required_columns)
         /\ ViolatingYears(df) # {} ) =>
            /\ Shown(ErrYears)
            /\ Range(incomplete_years) = ViolatingYears(df)

(* C3: under every convention, a run whose canonical records hold a month  *)
(* outside 1..12 ends with the month-out-of-range error without reaching   *)
(* the Aggregator, so every aggregated record has its month in 1..12.      *)
C3_MonthRangeEnforced ==
    /\ ReachedAggregator => MonthsInRange(df)
    /\ (pc = "done" /\ Normalized /\ ~MonthsInRange(df)) =>
            /\ ErrorsShown \cap MonthErrors # {}
            /\ ~ReachedAggregator

(* C4: a run that has shown an error has shown no Input Data table, no     *)
(* Output Data table and no text block.                                    *)
C4_ErrorLeavesNoOutput ==
    ErrorsShown # {} =>
        /\ ~Shown(TableInput)
        /\ ~Shown(TableOutput)
        /\ ~Shown(CodeBlock)

(* C5: the summary table computed for a data set that passed the           *)
(* validation has exactly 12 rows, with Month 1, 2, ..., 12 in this order. *)
C5_TwelveSummaryRows ==
    stats # <<>> => SummaryMonths = Twelve

(* C6 as stated: missing columns is the first check of the order, so a     *)
(* table of a recognised convention that lacks a required measurement      *)
(* column is rejected with the missing-columns error whatever else is      *)
(* wrong with it, a month outside 1..12 included.                          *)
C6_MissingColumnsReportedFirst ==
    ( /\ pc = "done"
      /\ Normalized
      /\ ~(MeasureColumns \subseteq df.columns) ) =>
        FirstError = ErrColumns

(* C6 as amended: under the separate and the combined convention the month *)
(* range is checked first, during normalisation; then, under every         *)
(* convention, missing columns, missing values and incomplete years (a     *)
(* year whose number of records is not 12), in this order.  The error      *)
(* shown is the one of the first failing check, it is the only one, and    *)
(* the run stops there; with no failing check the run goes on to the Input *)
(* Data table.                                                             *)
C6_ChecksInCodeOrder ==
    (pc = "done" /\ Normalized) =>
        LET badMonth == ~Shown(MsgAgency) /\ ~MonthsInRange(df)
            lacks == ~(CanonicalColumns \subseteq df.columns)
            nulls == \E k \in 1..Len(df.rows), c \in CanonicalColumns :
                        df.rows[k].cell[c].k = "nan"
            short == \E y \in YearsOf(df) :
                        Len(MonthsOfYear(df, y)) # MonthsPerYear
            expected ==
                IF badMonth
                THEN (IF Shown(MsgSeparate) THEN ErrMonthSeparate ELSE ErrMonthCombined)
                ELSE IF lacks THEN ErrColumns
                ELSE IF nulls THEN ErrValues
                ELSE IF short THEN ErrYears
                ELSE Item("ok", "")
        IN IF expected.st = "error"
           THEN ErrorsShown = {expected} /\ ~ReachedAggregator
           ELSE ReachedAggregator

\* witness of C6: a table without Rain and with a month out of range has
\* been rejected, with the month error
C6_Witness ==
    /\ pc = "done"
    /\ Normalized
    /\ "Rain" \notin df.columns
    /\ ~MonthsInRange(df)
    /\ ErrorsShown = {ErrMonthSeparate}

(* C7: the convention is chosen by the precedence agency, separate,        *)
(* combined (YearMonth before Time); the message shown names the one       *)
(* chosen; the unrecognised-schema error is shown exactly when none        *)
(* matches; and the Year and Month of every canonical record are derived   *)
(* from the chosen convention's column of the uploaded row (code // 100    *)
(* and code % 100 for the agency and the combined convention), the         *)
(* canonical records being the rows whose date cells are numbers.          *)
C7_ConventionByPrecedence ==
    pc # "normalize" =>
        LET cols == uploaded_file.columns
            agency == {"Time", "rau", "tn", "tx"} \subseteq cols
            separate == ~agency /\ {"Year", "Month"} \subseteq cols
            combined == ~agency /\ ~separate /\ ({"YearMonth", "Time"} \cap cols # {})
            code == IF agency THEN "Time"
                    ELSE IF "YearMonth" \in cols THEN "YearMonth" ELSE "Time"
            Raw(i) == uploaded_file.rows[i + 1].cell
            Dated(i) == IF separate
                        THEN Raw(i)["Year"].k = "num" /\ Raw(i)["Month"].k = "num"
                        ELSE Raw(i)[code].k = "num"
        IN /\ agency <=> Shown(MsgAgency)
           /\ separate <=> Shown(MsgSeparate)
           /\ combined <=> Shown(MsgCombined)
           /\ Cardinality(Range(emitted) \cap {MsgAgency, MsgSeparate, MsgCombined}) <= 1
           /\ Shown(ErrSchema) <=> ~(agency \/ separate \/ combined)
           /\ Normalized =>
                /\ {df.rows[k].index : k \in 1..Len(df.rows)}
                      = {i \in 0..(Len(uploaded_file.rows) - 1) : Dated(i)}
                /\ \A k \in 1..Len(df.rows) :
                     LET i == df.rows[k].index
                         year == df.rows[k].cell["Year"].v
                         month == df.rows[k].cell["Month"].v
                     IN IF separate
                        THEN year = Raw(i)["Year"].v /\ month = Raw(i)["Month"].v
                        ELSE /\ year = Raw(i)[code].v \div 100
                             /\ month = Raw(i)[code].v % 100

\* witness of C7: a table with the agency columns and also Year and Month
\* was normalised as agency, its years being those of the Time column
C7_Witness ==
    /\ pc = "validate"
    /\ AgencyColumns \cup {"Year", "Month"} \subseteq uploaded_file.columns
    /\ Shown(MsgAgency)
    /\ Len(df.rows) = MonthsPerYear
    /\ \A k \in 1..Len(df.rows) :
         df.rows[k].cell["Year"].v # uploaded_file.rows[k].cell["Year"].v

(* C8: no record whose Rain, Tmin or Tmax is a text that is no number      *)
(* reaches the Aggregator: the canonical records of a run that has shown   *)
(* the Input Data table hold no such text.                                 *)
C8_NoTextReachesAggregator ==
    ReachedAggregator => ~TextMeasure(df)

C10_YearlyRainIsSumOfMonthlyMeans ==
    stats # <<>> =>
        LET rows == monthly_avg.rows
            L == LcmOf({rows[j]["Rain_mean"].den : j \in 1..Len(rows)})
            sumOfMeans ==
                [num |-> SumSeq([j \in 1..Len(rows) |->
                            rows[j]["Rain_mean"].num * (L \div rows[j]["Rain_mean"].den)]),
                 den |-> L]
        IN /\ RatEq(stats[1].average_yearly_rainfall, sumOfMeans)
           /\ stats[1].Absolute_Tmin = SetMin({rows[j]["Tmin_min"].num : j \in 1..Len(rows)})
           /\ stats[1].Absolute_Tmax = SetMax({rows[j]["Tmax_max"].num : j \in 1..Len(rows)})

-----------------------------------------------------------------------------
(* Navigation, lines 346-378: the script is run from its top once when the *)
(* session opens and once more for every use of a widget.  A button        *)
(* returns True only in the run its click started.  The input widgets of   *)
(* the Editor page (lines 23-30) exist while that page is displayed; their *)
(* values are dropped by a run that does not display it.  What editor_page *)
(* does with an uploaded table is the subject of Spec; it never writes     *)
(* st.session_state.                                                       *)

\* the buttons of lines 353-365, in the order of their if statements
NavButtons == <<"Editor", "Data Format", "Example", "Data Source", "About">>

\* the if / elif chain of lines 369-378: the page name and the function called
DisplayChain == << <<"Editor", "editor_page">>,
                   <<"Data Format", "data_format_page">>,
                   <<"Example", "example_page">>,
                   <<"Data Source", "data_source_page">>,
                   <<"About", "about_page">> >>

StationNames == {"StationName", "", "Pocsaj"}
Elevations == {"Altitude", "97"}

\* lines 23, 28, 30: no file, and the value= defaults of the text inputs
DefaultWidgets == [uploaded |-> FALSE, station_name_input |-> "StationName",
                   elevation_input |-> "Altitude"]

NoSession == [k \in {} |-> ""]

\* mutant of ButtonTarget: the Example branch stores the page of the branch above it
ButtonTarget_CopiedBranch(b) == IF b = "Example" THEN "Data Format" ELSE b

\* the page stored by the branch of button b, lines 354, 357, 360, 363, 366
ButtonTarget(b) == b

\* lines 347-348
InitSession(ss) ==
    IF "current_page" \in DOMAIN ss THEN ss ELSE [current_page |-> "Editor"]

\* lines 351-366: the five if statements in order, clicked being the buttons
\* that return True in this run
RECURSIVE ApplyButtons(_, _, _)
ApplyButtons(ss, clicked, i) ==
    IF i > Len(NavButtons) THEN ss
    ELSE ApplyButtons(IF NavButtons[i] \in clicked
                      THEN [ss EXCEPT !.current_page = ButtonTarget(NavButtons[i])]
                      ELSE ss,
                      clicked, i + 1)

\* lines 369-378: the function of the first branch whose name is current_page
PageDisplay(ss) ==
    LET hits == {i \in 1..Len(DisplayChain) : DisplayChain[i][1] = ss.current_page}
    IN IF hits = {} THEN <<>> ELSE <<DisplayChain[SetMin(hits)][2]>>

\* one run of the script, started by widget w, the input widgets holding ws
ScriptRun(w, ws) ==
    /\ session_state' = ApplyButtons(InitSession(session_state),
                                     {w} \cap Range(NavButtons), 1)
    /\ displayed' = PageDisplay(session_state')
    /\ widgets' = IF displayed' = <<"editor_page">> THEN ws ELSE DefaultWidgets
    /\ trigger' = w
    /\ runs' = runs + 1
    /\ UNCHANGED <<uploaded_file, pc, df, required_columns, incomplete_years,
                   monthly_avg, stats, code_block, emitted>>

\* the session opens
FirstRun ==
    /\ runs = 0
    /\ ScriptRun("load", DefaultWidgets)

\* a navigation button is clicked
ButtonRun(b) ==
    /\ runs \in 1..(MaxRuns - 1)
    /\ ScriptRun(b, widgets)

\* a file is uploaded or removed
UploadRun ==
    /\ runs \in 1..(MaxRuns - 1)
    /\ displayed = <<"editor_page">>
    /\ ScriptRun("file_uploader", [widgets EXCEPT !.uploaded = ~@])

\* a text input is edited
TextRun(w, v) ==
    /\ runs \in 1..(MaxRuns - 1)
    /\ displayed = <<"editor_page">>
    /\ widgets[w] # v
    /\ ScriptRun(w, [widgets EXCEPT ![w] = v])

NavInit ==
    /\ uploaded_file = EmptyFrame
    /\ pc = "done"
    /\ df = EmptyFrame
    /\ required_columns = <<>>
    /\ incomplete_years = <<>>
    /\ monthly_avg = NoTable
    /\ stats = <<>>
    /\ code_block = <<>>
    /\ emitted = <<>>
    /\ session_state = NoSession
    /\ trigger = "none"
    /\ displayed = <<>>
    /\ widgets = DefaultWidgets
    /\ runs = 0

NavNext ==
    \/ FirstRun
    \/ \E i \in 1..Len(NavButtons) : ButtonRun(NavButtons[i])
    \/ UploadRun
    \/ \E v \in StationNames : TextRun("station_name_input", v)
    \/ \E v \in Elevations : TextRun("elevation_input", v)

NavSpec == NavInit /\ [][NavNext]_vars

PageNames == {"Editor", "Data Format", "Example", "Data Source", "About"}
PageFunction ==
    [n \in PageNames |->
        CASE n = "Editor" -> "editor_page"
          [] n = "Data Format" -> "data_format_page"
          [] n = "Example" -> "example_page"
          [] n = "Data Source" -> "data_source_page"
          [] OTHER -> "about_page"]

HasPage == "current_page" \in DOMAIN session_state

(* C11: over the script runs of a session, current_page is always one of   *)
(* Editor, Data Format, Example, Data Source, About; the first run sets it *)
(* to Editor; a run started by the click of a navigation button sets it to *)
(* that button's page; a run started by anything else (a file upload, a    *)
(* text input) leaves it as it was; and every run displays exactly the one *)
(* page named by current_page as that run has left it.                     *)
C11_Navigation ==
    /\ [](HasPage => session_state.current_page \in PageNames)
    /\ [](runs > 0 => HasPage)
    /\ [][ /\ ~HasPage => session_state'.current_page = "Editor"
           /\ (HasPage /\ trigger' \in PageNames) =>
                 session_state'.current_page = trigger'
           /\ (HasPage /\ trigger' \notin PageNames) =>
                 session_state'.current_page = session_state.current_page
           /\ displayed' = <<PageFunction[session_state'.current_page]>> ]_nav_vars

\* witness of C11: a click has moved the session from the Editor page, where
\* a file had been uploaded, to the Example page, the only page now displayed
C11_Witness ==
    /\ runs >= 3
    /\ trigger = "Example"
    /\ session_state.current_page = "Example"
    /\ displayed = <<"example_page">>

====
